---------------------------- MODULE Spec2Model ----------------------------
(***************************************************************************)
(* A model of src/main.py: the /analyze-damage request handler, the drone  *)
(* camera footprint, the polygon area and the ground elevation lookup.     *)
(*                                                                         *)
(* Numbers.  Python floats are modelled as exact rationals <<n, d>> in     *)
(* lowest terms with d > 0, so +, -, * and / are exact and rounding in the *)
(* last bits is not modelled.  A float division by zero raises             *)
(* ZeroDivisionError, as in Python.  math.cos, math.sin and math.tan of an *)
(* angle in degrees are tables of three-digit rational values at the       *)
(* angles the model uses (TLC stops at an angle that has no entry).         *)
(***************************************************************************)
EXTENDS Integers, Sequences, FiniteSets, TLC

-----------------------------------------------------------------------------
(* Rational arithmetic: the float operators of src/main.py.                *)

\* TLC evaluates an operator's argument anew at each use of the parameter.
\* Once(F, a) and Once2(F, a, b) are F(a) and F(a, b) with every argument
\* evaluated once.
Once(F(_), a) == CHOOSE r \in {F(x) : x \in {a}} : TRUE
Once2(F(_, _), a, b) == CHOOSE r \in {F(x, y) : x \in {a}, y \in {b}} : TRUE
Once3(F(_, _, _), a, b, c) ==
    CHOOSE r \in {F(x, y, z) : x \in {a}, y \in {b}, z \in {c}} : TRUE

AbsV(i) == IF i < 0 THEN -i ELSE i

RECURSIVE Gcd(_, _)
Gcd(a, b) == IF b = 0 THEN a ELSE Gcd(b, a % b)

\* The rational n/d in lowest terms, d # 0.
RatV(n, d) ==
    LET g == Gcd(AbsV(n), AbsV(d))
        s == IF d < 0 THEN -1 ELSE 1
    IN  <<(s * n) \div g, (s * d) \div g>>
Rat(n, d) == Once2(RatV, n, d)

R(i) == <<i, 1>>
Zero == <<0, 1>>

RNegV(a) == <<-a[1], a[2]>>
RNeg(a) == Once(RNegV, a)

RAddV(a, b) ==
    LET g == Gcd(a[2], b[2])
    IN  Rat(a[1] * (b[2] \div g) + b[1] * (a[2] \div g), (a[2] \div g) * b[2])
RAdd(a, b) == Once2(RAddV, a, b)

RSub(a, b) == RAdd(a, RNeg(b))

\* Factors are cancelled crosswise before multiplying.
RMulV(a, b) ==
    LET g1 == Gcd(AbsV(a[1]), b[2])
        g2 == Gcd(AbsV(b[1]), a[2])
    IN  <<(a[1] \div g1) * (b[1] \div g2), (a[2] \div g2) * (b[2] \div g1)>>
RMul(a, b) == Once2(RMulV, a, b)

\* a / b for b # 0 (no arm for b = 0: the callers raise ZeroDivisionError
\* before dividing by it).
RInvV(b) ==
    CASE b[1] > 0 -> <<b[2], b[1]>>
      [] b[1] < 0 -> <<-b[2], -b[1]>>
RInv(b) == Once(RInvV, b)
RDiv(a, b) == RMul(a, RInv(b))

RSignV(a) == IF a[1] > 0 THEN 1 ELSE IF a[1] < 0 THEN -1 ELSE 0
RSign(a) == Once(RSignV, a)
RLt(a, b) == RSign(RSub(a, b)) < 0
RLe(a, b) == RSign(RSub(a, b)) <= 0
RMaxV(a, b) == IF RLt(a, b) THEN b ELSE a
RMax(a, b) == Once2(RMaxV, a, b)
RAbsV(a) == <<AbsV(a[1]), a[2]>>
RAbs(a) == Once(RAbsV, a)

\* The whole number nearest to a (halves round up).
RRoundV(a) == (2 * a[1] + a[2]) \div (2 * a[2])
RRound(a) == Once(RRoundV, a)

RECURSIVE RSumV(_)
RSumV(xs) == IF xs = <<>> THEN Zero ELSE RAdd(xs[1], Once(RSumV, Tail(xs)))
RSum(xs) == Once(RSumV, xs)

\* What a Python function gives back: a value, or an exception raised.
Ok(v) == [raised |-> "", value |-> v]
Raise(e) == [raised |-> e, value |-> Zero]

-----------------------------------------------------------------------------
(* math.cos, math.sin and math.tan of an angle given in degrees.           *)

\* math.cos(math.radians(a)): the cosine of the whole degree nearest to a.
\* A polygon of farm size spans far less than one degree of latitude.
CosDeg(a) ==
    LET k == RRound(a)
    IN  CASE k = 0 -> <<1, 1>>
          [] k = 30 -> <<433, 500>>
          [] k = 45 -> <<707, 1000>>
          [] k = 60 -> <<1, 2>>
          [] k = 90 -> Zero
          [] k = 180 -> <<-1, 1>>

\* math.sin(math.radians(a)) at the compass headings of the model.
SinDeg(a) ==
    LET k == RRound(a)
    IN  CASE k = 0 -> Zero
          [] k = 30 -> <<1, 2>>
          [] k = 90 -> <<1, 1>>
          [] k = 180 -> Zero

\* The near-angle floor of camera_footprint_from_drone, 0.0001 degrees.
MinNearAngle == <<1, 10000>>

\* math.tan(math.radians(a)).  tan is negative between 90 and 180 degrees;
\* exactly 90 degrees (1.6e16 in floats) is outside the table.
TanDeg(a) ==
    CASE a = MinNearAngle -> <<7, 4000000>>
      [] a = R(0) -> Zero
      [] a = R(15) -> <<67, 250>>
      [] a = R(30) -> <<577, 1000>>
      [] a = R(45) -> <<1, 1>>
      [] a = R(60) -> <<433, 250>>
      [] a = R(75) -> <<933, 250>>
      [] a = R(100) -> <<-5671, 1000>>
      [] a = R(105) -> <<-933, 250>>
      [] a = R(120) -> <<-433, 250>>
      [] a = R(135) -> <<-1, 1>>

-----------------------------------------------------------------------------
(* Geometry helpers.                                                       *)

\* Meters per degree of latitude.
lat_to_m == 111320

\* Meters per degree of longitude at latitude lat_ref.
lon_to_m(lat_ref) == RMul(R(lat_to_m), CosDeg(lat_ref))

Lats(points) == [i \in 1..Len(points) |-> points[i][1]]
Lons(points) == [i \in 1..Len(points) |-> points[i][2]]

\* The projection of the points to the local plane: xy[i] = <<x, y>>.
ProjectXYV(points, lat_ref, lon_ref) ==
    [i \in 1..Len(points) |->
        <<RMul(RSub(points[i][2], lon_ref), lon_to_m(lat_ref)),
          RMul(RSub(points[i][1], lat_ref), R(lat_to_m))>>]
ProjectXY(points, lat_ref, lon_ref) == Once3(ProjectXYV, points, lat_ref, lon_ref)

\* The signed shoelace sum over xy[i], xy[(i + 1) % n].
ShoelaceSumV(xy) ==
    LET n == Len(xy)
        term(i) ==
            LET j == (i % n) + 1
            IN  RSub(RMul(xy[i][1], xy[j][2]), RMul(xy[j][1], xy[i][2]))
    IN  RSum([i \in 1..n |-> term(i)])
ShoelaceSum(xy) == Once(ShoelaceSumV, xy)

\* Lines 31 to 34: the mean latitude and the first longitude.
MeanLat(points) == RDiv(RSum(Lats(points)), R(Len(points)))
FirstLon(points) == Lons(points)[1]

\* Lines 31 to 52; the mean latitude divides by len(lats).
ProjectedArea(points) ==
    IF Len(points) = 0
    THEN Raise("ZeroDivisionError")
    ELSE Ok(RMul(RAbs(ShoelaceSum(ProjectXY(points, MeanLat(points),
                                            FirstLon(points)))),
                 <<1, 2>>))

\* The same with the guard on len(points) left out.
polygon_area_unguarded(points) == ProjectedArea(points)

\* The same returning the signed sum, abs() left out.
polygon_area_signed(points) ==
    IF Len(points) < 3
    THEN Ok(Zero)
    ELSE Ok(RMul(ShoelaceSum(ProjectXY(points, MeanLat(points),
                                       FirstLon(points))),
                 <<1, 2>>))

polygon_area_from_latlon(points) ==
    IF Len(points) < 3 THEN Ok(Zero) ELSE ProjectedArea(points)

\* <<dlat, dlon>> for an offset of east_m, north_m meters.
meters_to_latlon_offsets(east_m, north_m, lat_ref) ==
    <<RDiv(north_m, R(lat_to_m)), RDiv(east_m, lon_to_m(lat_ref))>>

-----------------------------------------------------------------------------
(* The ground elevation lookup and the drone footprint.                    *)

\* A Python value of the given type; val is meaningful for floats only.
Float(v) == [type |-> "float", val |-> v]
None == [type |-> "NoneType", val |-> Zero]
Str == [type |-> "str", val |-> Zero]

\* What the elevation service does on one lookup ("none": no lookup yet).  requests.get raises on
\* "timeout"; .json() raises on "not_json"; r["results"][0] raises on
\* "empty_results"; otherwise the "elevation" member of the first result is
\* returned as it is, a number ("ok") or JSON null ("null_elevation").
Response(kind, elevation) == [kind |-> kind, elevation |-> elevation]

get_ground_elevation(resp) ==
    CASE resp.kind \in {"timeout", "not_json", "empty_results"} -> Float(Zero)
      [] resp.kind = "null_elevation" -> None
      [] resp.kind = "ok" -> Float(resp.elevation)

\* The height used when the drone is at or below the ground, in meters.
DefaultHeight == 5

\* The same clamping only below the ground (< for <=).
height_clamped_below(drone_alt_msl, ground) ==
    LET d == RSub(drone_alt_msl, ground)
    IN  IF RSign(d) < 0 THEN R(DefaultHeight) ELSE d

\* Lines 74 to 76: h = drone_alt_msl - ground_elev, 5 when h <= 0.
height_above_ground(drone_alt_msl, ground) ==
    LET d == RSub(drone_alt_msl, ground)
    IN  IF RSign(d) <= 0 THEN R(DefaultHeight) ELSE d

\* <<east, north>> of a point d_forward ahead and right_offset to the right
\* of a camera heading theta degrees.
en_from_forward_right(theta, d_forward, right_offset) ==
    LET ef == SinDeg(theta)
        nf == CosDeg(theta)
        er == CosDeg(theta)
        nr == RNeg(SinDeg(theta))
    IN  <<RAdd(RMul(d_forward, ef), RMul(right_offset, er)),
          RAdd(RMul(d_forward, nf), RMul(right_offset, nr))>>

\* Lines 78 to 104: the ground distances, the half widths and the four
\* corners (near-left, near-right, far-right, far-left) in meters.
footprint_geometry(d, height) ==
    LET half_v == RMul(d.vertical_fov_deg, <<1, 2>>)
        near_angle == RMax(MinNearAngle, RSub(d.mount_tilt_deg, half_v))
        far_angle == RAdd(d.mount_tilt_deg, half_v)
        near_d == RMul(height, TanDeg(near_angle))
        far_d == RMul(height, TanDeg(far_angle))
        tan_h == TanDeg(RMul(d.horizontal_fov_deg, <<1, 2>>))
        half_w_near == RMul(near_d, tan_h)
        half_w_far == RMul(far_d, tan_h)
        theta == d.compass_heading_deg
    IN  [near_angle |-> near_angle, far_angle |-> far_angle,
         near_d |-> near_d, far_d |-> far_d,
         half_w_near |-> half_w_near, half_w_far |-> half_w_far,
         corners_fr |-> << <<near_d, RNeg(half_w_near)>>,
                           <<near_d, half_w_near>>,
                           <<far_d, half_w_far>>,
                           <<far_d, RNeg(half_w_far)>> >>,
         corners_en |-> <<en_from_forward_right(theta, near_d, RNeg(half_w_near)),
                          en_from_forward_right(theta, near_d, half_w_near),
                          en_from_forward_right(theta, far_d, half_w_far),
                          en_from_forward_right(theta, far_d, RNeg(half_w_far))>>]

\* Lines 106 to 111: the corners as <<lat, lon>> around the drone.
footprint_latlon(corners_en, drone_lat, drone_lon) ==
    [i \in 1..Len(corners_en) |->
        LET off == meters_to_latlon_offsets(corners_en[i][1], corners_en[i][2],
                                            drone_lat)
        IN  <<RAdd(drone_lat, off[1]), RAdd(drone_lon, off[2])>>]

-----------------------------------------------------------------------------
(* The yield arithmetic of analyze_damage.                                 *)

\* Kilograms of rice per surviving plant.
RicePerPlant == <<7, 500>>

\* 1 / (row_spacing * plant_spacing), for a product that is not 0.
PlantDensity(row_spacing, plant_spacing) ==
    RDiv(R(1), RMul(row_spacing, plant_spacing))

\* The same dividing the area by the density.
LostPlantsDivided(a, density) == RDiv(a, density)

\* lost = area * plant_density
LostPlants(a, density) == RMul(a, density)

-----------------------------------------------------------------------------
(* The requests and the elevation service of the model.                    *)

\* The most damage regions in one request.
MaxRegions == 2

\* A point k/11132 degrees from a whole degree: 10 m of latitude per step.
Deg(whole, steps) == Rat(whole * 11132 + steps, 11132)
Pt(lat_whole, lat_steps, lon_steps) == <<Deg(lat_whole, lat_steps), Deg(0, lon_steps)>>

NoPose ==
    [drone_lat |-> Zero, drone_lon |-> Zero, drone_alt_msl |-> Zero,
     compass_heading_deg |-> Zero, mount_tilt_deg |-> Zero,
     vertical_fov_deg |-> Zero, horizontal_fov_deg |-> Zero]

\* ManualPolygon and DronePolygon as one record; a manual region has no
\* pose and a drone region no points.
ManualPolygon(points) == [type |-> "manual", points |-> points, pose |-> NoPose]
DronePolygon(lat, alt, heading, tilt, vfov, hfov) ==
    [type |-> "drone", points |-> <<>>,
     pose |-> [drone_lat |-> R(lat), drone_lon |-> Zero,
               drone_alt_msl |-> R(alt), compass_heading_deg |-> R(heading),
               mount_tilt_deg |-> R(tilt), vertical_fov_deg |-> R(vfov),
               horizontal_fov_deg |-> R(hfov)]]

\* A 10 m by 10 m square on the equator: 100 square meters.
Square100 == <<Pt(0, 0, 0), Pt(0, 0, 1), Pt(0, 1, 1), Pt(0, 1, 0)>>

ManualRegions ==
    { ManualPolygon(<<>>),
      ManualPolygon(<<Pt(0, 1, 1)>>),
      ManualPolygon(<<Pt(0, 0, 0), Pt(0, 1, 1)>>),
      ManualPolygon(<<Pt(0, 0, 0), Pt(0, 0, 1), Pt(0, 1, 0)>>),
      ManualPolygon(Square100),
      ManualPolygon(<<Pt(60, 0, 0), Pt(60, 0, 2), Pt(60, 1, 2), Pt(60, 1, 0)>>) }

DroneRegions ==
    { DronePolygon(0, 105, 0, 45, 60, 90),
      DronePolygon(60, 105, 90, 60, 90, 90) }

Responses ==
    { Response("timeout", Zero), Response("not_json", Zero),
      Response("empty_results", Zero), Response("null_elevation", Zero),
      Response("ok", R(100)), Response("ok", R(105)), Response("ok", R(200)) }

NoResponse == Response("none", Zero)

Regions == ManualRegions \cup DroneRegions

\* farm_area_m2, row_spacing, plant_spacing as they arrive in the body.
Farms ==
    { <<Float(R(10000)), Float(<<1, 5>>), Float(<<1, 5>>)>>,
      <<Float(R(50)), Float(R(1)), Float(R(1))>>,
      <<Float(R(50)), Float(R(1)), Float(<<1, 2>>)>>,
      <<Float(Zero), Float(R(1)), Float(R(1))>>,
      <<Float(R(100)), Float(Zero), Float(R(1))>>,
      <<Float(R(100)), Float(R(1)), Float(R(-1))>>,
      <<Float(R(100)), Str, Float(R(1))>>,
      <<Str, Float(R(1)), Float(R(1))>> }

Body(farm, regions) ==
    [farm_area_m2 |-> farm[1], row_spacing |-> farm[2],
     plant_spacing |-> farm[3], damage_polygons |-> regions]

-----------------------------------------------------------------------------
VARIABLES
    pc,                 \* where the handling of the request stands
    body,               \* the request body as received
    response,           \* the elevation service's answer to the last lookup
    data,               \* the DamageRequest built from the body
    error,              \* the exception that ended the handling, or ""
    plant_density, total_plants,
    total_damage_area, total_lost_plants,
    idx,                \* the region the loop is at
    ground_elev, h, geom,
    poly, area, lost,
    polys,              \* history: the polygon of each region measured so far
    result              \* the response of analyze_damage

vars ==
    <<pc, body, response, data, error, plant_density, total_plants,
      total_damage_area, total_lost_plants, idx, ground_elev, h, geom,
      poly, area, lost, polys, result>>

NoData ==
    [farm_area_m2 |-> Zero, row_spacing |-> Zero, plant_spacing |-> Zero,
     damage_polygons |-> <<>>]

NoGeom == footprint_geometry(NoPose, Zero)

NoResult ==
    [farm_area_m2 |-> Zero, total_plants |-> Zero, total_damage_area |-> Zero,
     total_lost_plants |-> Zero, remaining_plants |-> Zero,
     yield_remaining_percent |-> Zero, yield_lost_percent |-> Zero,
     total_rice_kg |-> Zero]

\* Nothing computed yet.
Blank ==
    /\ data = NoData
    /\ error = ""
    /\ plant_density = Zero
    /\ total_plants = Zero
    /\ total_damage_area = Zero
    /\ total_lost_plants = Zero
    /\ idx = 0
    /\ ground_elev = Float(Zero)
    /\ h = Zero
    /\ geom = NoGeom
    /\ poly = <<>>
    /\ area = Zero
    /\ lost = Zero
    /\ polys = <<>>
    /\ response = NoResponse
    /\ result = NoResult

\* A request has arrived.
Init ==
    /\ pc = "request"
    /\ \E n \in 0..MaxRegions : \E rs \in [1..n -> Regions] : \E farm \in Farms :
          body = Body(farm, rs)
    /\ Blank

\* DamageRequest: the three farm fields must be floats; nothing else is
\* checked.
Validate ==
    /\ pc = "request"
    /\ IF /\ body.farm_area_m2.type = "float"
          /\ body.row_spacing.type = "float"
          /\ body.plant_spacing.type = "float"
       THEN /\ data' = [farm_area_m2 |-> body.farm_area_m2.val,
                        row_spacing |-> body.row_spacing.val,
                        plant_spacing |-> body.plant_spacing.val,
                        damage_polygons |-> body.damage_polygons]
            /\ pc' = "density"
            /\ error' = error
       ELSE /\ data' = data
            /\ pc' = "rejected"
            /\ error' = "ValidationError"
    /\ UNCHANGED <<body, response, polys, plant_density, total_plants,
                   total_damage_area, total_lost_plants, idx, ground_elev, h,
                   geom, poly, area, lost, result>>

\* Lines 148 to 152.
Density ==
    /\ pc = "density"
    /\ IF RMul(data.row_spacing, data.plant_spacing) = Zero
       THEN /\ pc' = "failed"
            /\ error' = "ZeroDivisionError"
            /\ UNCHANGED <<plant_density, total_plants, idx>>
       ELSE /\ plant_density' = PlantDensity(data.row_spacing, data.plant_spacing)
            /\ total_plants' = RMul(plant_density', data.farm_area_m2)
            /\ idx' = 1
            /\ pc' = "loop"
            /\ error' = error
    /\ total_damage_area' = Zero
    /\ total_lost_plants' = Zero
    /\ UNCHANGED <<body, response, polys, data, ground_elev, h, geom, poly, area,
                   lost, result>>

\* Lines 154 to 157: the next region, or the end of the loop.
Loop ==
    /\ pc = "loop"
    /\ IF idx > Len(data.damage_polygons)
       THEN /\ pc' = "finish"
            /\ poly' = poly
       ELSE IF data.damage_polygons[idx].type = "manual"
            THEN /\ poly' = data.damage_polygons[idx].points
                 /\ pc' = "area"
            ELSE /\ poly' = poly
                 /\ pc' = "elevation"
    /\ UNCHANGED <<body, response, polys, data, error, plant_density, total_plants,
                   total_damage_area, total_lost_plants, idx, ground_elev, h,
                   geom, area, lost, result>>

\* Line 73: the lookup, with whatever the service answers.
Elevation ==
    /\ pc = "elevation"
    /\ \E resp \in Responses :
          /\ response' = resp
          /\ ground_elev' = get_ground_elevation(resp)
    /\ pc' = "height"
    /\ UNCHANGED <<body, polys, data, error, plant_density, total_plants,
                   total_damage_area, total_lost_plants, idx, h, geom, poly,
                   area, lost, result>>

\* Lines 74 to 76: the subtraction raises TypeError unless ground_elev is a
\* number.
Height ==
    /\ pc = "height"
    /\ IF ground_elev.type = "float"
       THEN /\ h' = height_above_ground(data.damage_polygons[idx].pose.drone_alt_msl,
                                        ground_elev.val)
            /\ pc' = "geometry"
            /\ error' = error
       ELSE /\ h' = h
            /\ pc' = "failed"
            /\ error' = "TypeError"
    /\ UNCHANGED <<body, response, polys, data, plant_density, total_plants,
                   total_damage_area, total_lost_plants, idx, ground_elev,
                   geom, poly, area, lost, result>>

\* Lines 78 to 104.
Geometry ==
    /\ pc = "geometry"
    /\ geom' = footprint_geometry(data.damage_polygons[idx].pose, h)
    /\ pc' = "project"
    /\ UNCHANGED <<body, response, polys, data, error, plant_density, total_plants,
                   total_damage_area, total_lost_plants, idx, ground_elev, h,
                   poly, area, lost, result>>

\* Lines 106 to 111.
Project ==
    /\ pc = "project"
    /\ poly' = footprint_latlon(geom.corners_en,
                                data.damage_polygons[idx].pose.drone_lat,
                                data.damage_polygons[idx].pose.drone_lon)
    /\ pc' = "area"
    /\ UNCHANGED <<body, response, polys, data, error, plant_density, total_plants,
                   total_damage_area, total_lost_plants, idx, ground_elev, h,
                   geom, area, lost, result>>

\* Lines 169 to 173.
Area ==
    /\ pc = "area"
    /\ \E a \in {polygon_area_from_latlon(poly)} :
           IF a.raised = ""
           THEN /\ area' = a.value
                /\ lost' = LostPlants(a.value, plant_density)
                /\ total_damage_area' = RAdd(total_damage_area, area')
                /\ total_lost_plants' = RAdd(total_lost_plants, lost')
                /\ polys' = Append(polys, poly)
                /\ idx' = idx + 1
                /\ pc' = "loop"
                /\ error' = error
           ELSE /\ pc' = "failed"
                /\ error' = a.raised
                /\ UNCHANGED <<area, lost, total_damage_area,
                               total_lost_plants, polys, idx>>
    /\ UNCHANGED <<body, response, data, plant_density, total_plants,
                   ground_elev, h, geom, poly, result>>

\* Lines 175 to 188: surviving / total_plants raises when total_plants is 0.
Finish ==
    /\ pc = "finish"
    /\ LET surviving == RSub(total_plants, total_lost_plants)
       IN  IF total_plants = Zero
           THEN /\ pc' = "failed"
                /\ error' = "ZeroDivisionError"
                /\ result' = result
           ELSE LET yield_percentage == RMul(RDiv(surviving, total_plants), R(100))
                IN  /\ result' =
                          [farm_area_m2 |-> data.farm_area_m2,
                           total_plants |-> total_plants,
                           total_damage_area |-> total_damage_area,
                           total_lost_plants |-> total_lost_plants,
                           remaining_plants |-> surviving,
                           yield_remaining_percent |-> yield_percentage,
                           yield_lost_percent |-> RSub(R(100), yield_percentage),
                           total_rice_kg |-> RMul(surviving, RicePerPlant)]
                    /\ pc' = "done"
                    /\ error' = error
    /\ UNCHANGED <<body, response, polys, data, plant_density, total_plants,
                   total_damage_area, total_lost_plants, idx, ground_elev, h,
                   geom, poly, area, lost>>

Next ==
    \/ Validate
    \/ Density
    \/ Loop
    \/ Elevation
    \/ Height
    \/ Geometry
    \/ Project
    \/ Area
    \/ Finish

Spec == Init /\ [][Next]_vars

-----------------------------------------------------------------------------
(* polygon_area_from_latlon on its own: the handler about to measure one   *)
(* manual region, for every vertex sequence over a grid of points near     *)
(* latitude 60.                                                            *)

MaxVerts == 4
MaxLatStep == 1
MaxLonStep == 1

GridPoints == {Pt(60, i, j) : i \in 0..MaxLatStep, j \in 0..MaxLonStep}

\* The handler's state when its loop has picked the only region, a manual
\* one, of a farm of 10000 square meters with spacings of 1 m.
InitArea ==
    /\ pc = "area"
    /\ \E n \in 0..MaxVerts : \E pts \in [1..n -> GridPoints] :
          /\ poly = pts
          /\ body = Body(<<Float(R(10000)), Float(R(1)), Float(R(1))>>,
                         <<ManualPolygon(pts)>>)
          /\ data = [farm_area_m2 |-> R(10000), row_spacing |-> R(1),
                     plant_spacing |-> R(1),
                     damage_polygons |-> <<ManualPolygon(pts)>>]
    /\ error = ""
    /\ plant_density = R(1)
    /\ total_plants = R(10000)
    /\ total_damage_area = Zero
    /\ total_lost_plants = Zero
    /\ idx = 1
    /\ ground_elev = Float(Zero)
    /\ h = Zero
    /\ geom = NoGeom
    /\ area = Zero
    /\ lost = Zero
    /\ polys = <<>>
    /\ response = NoResponse
    /\ result = NoResult

NextArea == Area

SpecArea == InitArea /\ [][NextArea]_vars

-----------------------------------------------------------------------------
(* The footprint geometry on its own: the handler about to compute the     *)
(* footprint of one drone region, for a grid of camera poses.              *)

Tilts == {0, 45, 60}
VerticalFovs == {0, 30, 120}
HorizontalFovs == {0, 60, 90, 200}
Headings == {0, 90, 180}

PoseGrid ==
    {DronePolygon(0, 105, hd, t, vf, hf) :
        hd \in Headings, t \in Tilts, vf \in VerticalFovs, hf \in HorizontalFovs}

\* The handler's state after the lookup and the height for the only region,
\* a drone at 105 m, with the ground at 100 m or the lookup timed out.
InitFootprint ==
    /\ pc = "geometry"
    /\ \E d \in PoseGrid :
       \E resp \in {Response("ok", R(100)), Response("timeout", Zero)} :
          /\ body = Body(<<Float(R(10000)), Float(R(1)), Float(R(1))>>, <<d>>)
          /\ data = [farm_area_m2 |-> R(10000), row_spacing |-> R(1),
                     plant_spacing |-> R(1), damage_polygons |-> <<d>>]
          /\ response = resp
          /\ ground_elev = get_ground_elevation(resp)
          /\ h = height_above_ground(d.pose.drone_alt_msl, ground_elev.val)
    /\ error = ""
    /\ plant_density = R(1)
    /\ total_plants = R(10000)
    /\ total_damage_area = Zero
    /\ total_lost_plants = Zero
    /\ idx = 1
    /\ geom = NoGeom
    /\ poly = <<>>
    /\ area = Zero
    /\ lost = Zero
    /\ polys = <<>>
    /\ result = NoResult

NextFootprint == Geometry

SpecFootprint == InitFootprint /\ [][NextFootprint]_vars

-----------------------------------------------------------------------------
(* The claims.                                                             *)

\* The region the loop is at.
Current == data.damage_polygons[idx]

Positive(x) == RSign(x) > 0

\* The request is what the core calls validated input.
ValidFarm ==
    /\ Positive(data.row_spacing)
    /\ Positive(data.plant_spacing)
    /\ RSign(data.farm_area_m2) >= 0

\* C1: for positive spacings and a positive farm area, the remaining plant
\* count that analyze_damage returns is never negative, whatever the damage
\* regions add up to.
C1_SurvivingNeverNegative ==
    (pc = "done" /\ ValidFarm /\ Positive(data.farm_area_m2))
        => RSign(result.remaining_plants) >= 0

\* C2: given validated input (positive spacings, a farm area >= 0, well
\* formed regions) analyze_damage returns a result: no exception ends it.
C2_CoreIsTotal == ValidFarm => pc # "failed"

\* C3: a request whose row_spacing or plant_spacing is zero or negative is
\* rejected at the request boundary; the core is never entered with it.
C3_NonPositiveSpacingRejected ==
    (/\ body.row_spacing.type = "float"
     /\ body.plant_spacing.type = "float"
     /\ \/ ~Positive(body.row_spacing.val)
        \/ ~Positive(body.plant_spacing.val))
        => pc \in {"request", "rejected"}

\* C4: whenever the elevation lookup fails (a timeout, a body that is not
\* JSON, an empty or malformed result) get_ground_elevation returns 0.0 and
\* the footprint is computed with it: no exception ends the handling.
C4_LookupFailureGivesZero ==
    (response.kind \in {"timeout", "not_json", "empty_results", "null_elevation"}
        /\ pc \in {"height", "geometry", "project", "failed"})
        => (ground_elev = Float(Zero) /\ error # "TypeError")

\* C5: the height above ground used for the footprint is strictly positive:
\* drone_alt_msl - ground_elev when that is > 0, and exactly 5 otherwise.
C5_HeightPositive ==
    pc \in {"geometry", "project"} =>
        LET d == RSub(Current.pose.drone_alt_msl, ground_elev.val)
        IN  /\ Positive(h)
            /\ Positive(d) => h = d
            /\ ~Positive(d) => h = R(5)

\* The drone is exactly at the ground level the lookup returned, and the
\* height is the clamped one.
C5_Witness ==
    /\ pc = "geometry"
    /\ response.kind = "ok"
    /\ ground_elev.val = Current.pose.drone_alt_msl
    /\ h = R(5)

Reverse(seq) == [i \in 1..Len(seq) |-> seq[Len(seq) + 1 - i]]

\* C6: the area measured for a polygon of at least 3 vertices is the area of
\* the same vertices in reverse order.
C6_AreaReversalInvariant ==
    (pc = "loop" /\ Len(polys) > 0 /\ Len(poly) >= 3)
        => area = polygon_area_from_latlon(Reverse(poly)).value

\* A quadrilateral of positive area whose reversal starts at another
\* longitude has been measured.
C6_Witness ==
    /\ pc = "loop"
    /\ Len(polys) > 0
    /\ Len(poly) = 4
    /\ Positive(area)
    /\ poly[1][2] # poly[4][2]

\* C7: a region of fewer than 3 points is measured without an error, has
\* area 0 and adds nothing to total_damage_area and total_lost_plants.
C7_DegenerateRegionAddsNothing ==
    [][(pc = "area" /\ Len(poly) < 3)
          => /\ pc' = "loop"
             /\ error' = ""
             /\ area' = Zero
             /\ lost' = Zero
             /\ total_damage_area' = total_damage_area
             /\ total_lost_plants' = total_lost_plants]_vars

\* After a region of positive area, a region of two distinct points has been
\* measured and the totals still are those of the first region.
C7_Witness ==
    /\ pc = "loop"
    /\ Len(polys) = 2
    /\ Len(polys[2]) = 2
    /\ polys[2][1] # polys[2][2]
    /\ Positive(total_damage_area)
    /\ total_damage_area = polygon_area_from_latlon(polys[1]).value
    /\ area = Zero

\* C8: total_damage_area is the sum of the areas of the regions measured,
\* each once, and total_lost_plants is total_damage_area * plant_density with
\* plant_density = 1 / (row_spacing * plant_spacing); a farm of 10000 square
\* meters with spacings 0.2 and 0.2 has density 25 and 250000 plants, and one
\* region of 100 square meters removes 2500 of them.
C8_TotalsAreSums ==
    pc \in {"loop", "elevation", "height", "geometry", "project", "area",
            "finish", "done"} =>
        /\ Len(polys) = idx - 1
        /\ pc \in {"finish", "done"} => Len(polys) = Len(data.damage_polygons)
        /\ \A i \in 1..Len(polys) :
              /\ data.damage_polygons[i].type = "manual"
                    => polys[i] = data.damage_polygons[i].points
              /\ data.damage_polygons[i].type = "drone" => Len(polys[i]) = 4
        /\ total_damage_area
              = RSum([i \in 1..Len(polys) |->
                         polygon_area_from_latlon(polys[i]).value])
        /\ plant_density
              = RDiv(R(1), RMul(data.row_spacing, data.plant_spacing))
        /\ total_lost_plants = RMul(total_damage_area, plant_density)
        /\ (/\ data.farm_area_m2 = R(10000)
            /\ data.row_spacing = <<1, 5>>
            /\ data.plant_spacing = <<1, 5>>)
              => /\ plant_density = R(25)
                 /\ total_plants = R(250000)
                 /\ polys = <<Square100>>
                       => /\ total_damage_area = R(100)
                          /\ total_lost_plants = R(2500)

\* The example request has been answered.
C8_Witness ==
    /\ pc = "done"
    /\ data.farm_area_m2 = R(10000)
    /\ data.row_spacing = <<1, 5>>
    /\ polys = <<Square100>>
    /\ result.total_lost_plants = R(2500)
    /\ result.total_plants = R(250000)

\* C9: the harvest mass is perPlantYield * survivingPlants with
\* perPlantYield = 0.014 * fertility * pest * variety * stage, and fertility
\* is 0.5 when no soil readings are supplied.  A DamageRequest carries no
\* soil readings; with the pest factor in [0.5, 1], the variety factor 1 or
\* 1.1 and the stage factor 0.95 or 1, the mass per surviving plant then is
\* between 0.003325 and 0.0077 kg.
C9_HarvestUsesYieldFactors ==
    pc = "done" =>
        LET mass == RAbs(result.total_rice_kg)
            plants == RAbs(result.remaining_plants)
        IN  /\ RLe(RMul(<<133, 40000>>, plants), mass)
            /\ RLe(mass, RMul(<<77, 10000>>, plants))

\* The sign of the turn from p to q to r in the plane.
Orient(p, q, r) ==
    RSign(RSub(RMul(RSub(q[1], p[1]), RSub(r[2], p[2])),
               RMul(RSub(q[2], p[2]), RSub(r[1], p[1]))))

\* The segments pq and rs cross at a point inside both.
Crosses(p, q, r, s) ==
    /\ Orient(p, q, r) * Orient(p, q, s) < 0
    /\ Orient(r, s, p) * Orient(r, s, q) < 0

\* C10: for every pose, the near angle is at least 0.0001 degrees, the near
\* distance is > 0, the far distance is >= the near distance, both half
\* widths are >= 0, and the corners near-left, near-right, far-right,
\* far-left form a quadrilateral whose opposite sides do not cross.
C10_FootprintIsSimpleQuad ==
    pc = "project" =>
        LET c == geom.corners_fr
        IN  /\ RLe(MinNearAngle, geom.near_angle)
            /\ Positive(geom.near_d)
            /\ RLe(geom.near_d, geom.far_d)
            /\ RSign(geom.half_w_near) >= 0
            /\ RSign(geom.half_w_far) >= 0
            /\ ~Crosses(c[1], c[2], c[3], c[4])
            /\ ~Crosses(c[2], c[3], c[4], c[1])

=============================================================================
